---- MODULE Spec2Model ----
(***************************************************************************)
(* Model of src/api/app.py: the clip-generation job (process_video_task,  *)
(* run on a background thread), the global progress queue log_queue, and  *)
(* the two request handlers generate_clips and get_logs.                  *)
(*                                                                         *)
(* Granularity.  queue.Queue serialises put/get_nowait, and the handlers  *)
(* touch no shared state but the queue, so each request handler is one    *)
(* action.  A worker is a thread: it is one action per external call      *)
(* (download, load, render, upload, delete) with the log lines the code   *)
(* writes around that call, and one action per queue write where the      *)
(* order of a record and a log line matters (lines 194/195 and 234/235).  *)
(*                                                                         *)
(* Log lines are kept without their text: an entry is identified by the   *)
(* job that wrote it and its position n among that job's writes.          *)
(***************************************************************************)
EXTENDS Integers, Sequences, FiniteSets, TLC

\* ---------------------------------------------------------------- bounds
\* Accepted submissions in a behaviour of Spec.
MaxJobs == 2
\* Video durations tried: multiples of half a clip duration, 0..MaxHalfClips.
MaxHalfClips == 6
\* generate_short_clips_to_temp taken alone: its arguments range over
\* 0..MaxTotalDuration seconds of video, 1..MaxClipDuration seconds per clip
\* and 1..MaxClipCount clips; frames have sides in 1..MaxFrameDim or one of
\* the usual video sides.
MaxTotalDuration == 100
MaxClipDuration == 27
MaxClipCount == 5
MaxFrameDim == 32

\* ------------------------------------------------------ program constants
SHORT_VIDEO_WIDTH == 1080
SHORT_VIDEO_HEIGHT == 1920
CLIP_DURATION_SECONDS == 27
NUM_CLIPS_TO_GENERATE == 5

Jobs == 1..MaxJobs

\* Durations full_clip.duration may report (seconds).
VideoDurations == {(k * CLIP_DURATION_SECONDS) \div 2 : k \in 0..MaxHalfClips}
\* Those of at most one clip duration.
ShortDurations == {d \in VideoDurations : d <= CLIP_DURATION_SECONDS}

\* request.form['youtube_link'] values tried, as sequences of characters.
HttpPrefix == <<"h", "t", "t", "p", ":", "/", "/">>
HttpsPrefix == <<"h", "t", "t", "p", "s", ":", "/", "/">>
Links ==
    { <<>>,
      HttpPrefix \o <<"a">>,
      HttpsPrefix \o <<"a">>,
      <<"f", "t", "p", ":", "/", "/", "a">>,
      <<"h", "t", "t", "p", ":", "/", "a">>,
      <<"x">> \o HttpPrefix \o <<"a">> }

VARIABLES
    log_queue,    \* the global queue.Queue, oldest entry first
    response,     \* the last HTTP response a handler returned
    pc,           \* pc[j]: where job j's thread is in process_video_task
    loc,          \* loc[j]: the locals of job j's thread
    files,        \* the temporary files that exist
    njobs,        \* threads started so far
    nput,         \* nput[j]: entries written for job j (seed lines included)
    terminals,    \* history: terminals[j], the records job j's thread has put
    events,       \* history: events[j], the external calls of job j, in order
    quiet,        \* history: get_logs ran and nothing was put since
    polled,       \* history: ids of the entries get_logs removed
    delivered,    \* history: ids of the entries a get_logs response carried
    redelivered,  \* history: ids carried by more than one response
    plan,         \* the for loop of generate_short_clips_to_temp, taken alone
    geometry      \* the crop and resize of one sub_clip, taken alone

vars == <<log_queue, response, pc, loc, files, njobs, nput, terminals, events,
          quiet, polled, delivered, redelivered, plan, geometry>>

\* ---------------------------------------------------------------- entries
Id(e) == <<e.job, e.n>>

\* A plain log line: the n-th write of job j.
Line(j, n) == [kind |-> "line", job |-> j, n |-> n, status |-> "", clips |-> <<>>]

\* A dict carrying a status.
Rec(j, n, status, clips) ==
    [kind |-> "record", job |-> j, n |-> n, status |-> status, clips |-> clips]

\* cnt consecutive log_message calls of job j.
LogLines(j, cnt) == [x \in 1..cnt |-> Line(j, nput[j] + x)]

\* isinstance(item, dict) and "status" in item
IsStatusDict(item) == item.kind = "record"

FullVideo(j) == <<"full_video", j>>
ClipFile(j, i) == <<"short_clip", j, i + 1>>
BlobUrl(j, i) == <<"blob", j, i + 1>>

NoLocals ==
    [downloaded_full_video_path |-> "None", video_duration |-> 0, i |-> 0,
     temp_clip_paths |-> <<>>, k |-> 1, blob_urls |-> <<>>]

NoResponse == [endpoint |-> "none", status |-> "", logs |-> <<>>, item |-> <<>>]

\* No call of the loop taken alone, no sub_clip taken alone.
NoPlan ==
    [pc |-> "idle", video_duration |-> 0, clip_duration |-> 0, num_clips |-> 0,
     i |-> 0, windows |-> <<>>]

NoClip == [w |-> 0, h |-> 0]

NoGeometry ==
    [pc |-> "idle", sub_clip |-> NoClip, cropped |-> NoClip,
     processed_clip |-> NoClip]

Functions == <<plan, geometry>>

\* The server has started: nothing submitted, nothing logged.
ServerStarted ==
    /\ log_queue = <<>>
    /\ response = NoResponse
    /\ pc = [j \in Jobs |-> "idle"]
    /\ loc = [j \in Jobs |-> NoLocals]
    /\ files = {}
    /\ njobs = 0
    /\ nput = [j \in Jobs |-> 0]
    /\ terminals = [j \in Jobs |-> <<>>]
    /\ events = [j \in Jobs |-> <<>>]
    /\ quiet = FALSE
    /\ polled = {}
    /\ delivered = {}
    /\ redelivered = {}

Init ==
    /\ ServerStarted
    /\ plan = NoPlan
    /\ geometry = NoGeometry

\* ------------------------------------------------------- writes by a job
\* Job j's thread puts `items` on log_queue (log_message, log_queue.put).
Put(j, items) ==
    /\ log_queue' = log_queue \o items
    /\ nput' = [nput EXCEPT ![j] = @ + Len(items)]
    /\ quiet' = (quiet /\ items = <<>>)

PutRecord(j, status, clips) ==
    /\ Put(j, <<Rec(j, nput[j] + 1, status, clips)>>)
    /\ terminals' = [terminals EXCEPT ![j] =
                        Append(@, [status |-> status, clips |-> clips])]

Goto(j, label) == pc' = [pc EXCEPT ![j] = label]
Event(j, e) == events' = [events EXCEPT ![j] = Append(@, e)]

PollHistory == <<polled, delivered, redelivered>>

\* ------------------------------------------------------------ the planner
\* Lines 116-117: the candidate window of iteration i.
StartTime(i, clip_duration) == i * clip_duration
EndTime(i, clip_duration) == StartTime(i, clip_duration) + clip_duration

\* Line 119: the window starts at or after the end of the video.
ReachedEnd(i, clip_duration, video_duration) ==
    StartTime(i, clip_duration) >= video_duration

\* TooShort without the test of line 125: whatever is left is rendered.
TooShortNever(i, clip_duration, video_duration) == FALSE

\* Lines 123-125: the window is clamped to the end of the video and what is
\* left is shorter than clip_duration / 2 (13.5 s: compared doubled).
TooShort(i, clip_duration, video_duration) ==
    /\ EndTime(i, clip_duration) > video_duration
    /\ 2 * (video_duration - StartTime(i, clip_duration)) < clip_duration

\* ClampedEnd without lines 123-124: the window may run past the video.
ClampedEndUnclamped(i, clip_duration, video_duration) ==
    EndTime(i, clip_duration)

\* Lines 123-124: the end of the window that is rendered.
ClampedEnd(i, clip_duration, video_duration) ==
    IF EndTime(i, clip_duration) > video_duration
    THEN video_duration
    ELSE EndTime(i, clip_duration)

\* LoopEnds with a `while True` in place of range(num_clips).
LoopEndsNoCount(i, clip_duration, num_clips, video_duration) ==
    \/ ReachedEnd(i, clip_duration, video_duration)
    \/ TooShort(i, clip_duration, video_duration)

\* Lines 115-127: the for loop is left at iteration i.
LoopEnds(i, clip_duration, num_clips, video_duration) ==
    \/ i >= num_clips
    \/ ReachedEnd(i, clip_duration, video_duration)
    \/ TooShort(i, clip_duration, video_duration)

\* --------------------------------------------------- process_video_task
\* Line 191: download_youtube_video_to_temp.  Two lines are logged, yt-dlp
\* runs, and the function returns a path (the Destination line names an
\* existing file: one more line; or the directory scan finds it: two more) or
\* None (yt-dlp exits non-zero: three more lines; the file is not confirmed,
\* or yt-dlp is not installed: two more), or an exception other than the two
\* run_subprocess_command catches escapes.
DownloadOutcomes == {"destination", "scan", "exit_code", "unconfirmed", "raise"}

DownloadLines(outcome) ==
    CASE outcome = "destination" -> 3
      [] outcome = "scan" -> 4
      [] outcome = "exit_code" -> 5
      [] outcome = "unconfirmed" -> 4
      [] OTHER -> 2

Download(j) ==
    /\ pc[j] = "download"
    /\ \E outcome \in DownloadOutcomes :
         LET ok == outcome \in {"destination", "scan"} IN
         /\ Put(j, LogLines(j, DownloadLines(outcome)))
         /\ files' = IF ok THEN files \cup {FullVideo(j)} ELSE files
         /\ loc' = [loc EXCEPT ![j].downloaded_full_video_path =
                        IF ok THEN "path" ELSE "None"]
         /\ Event(j, <<"download", IF ok THEN "ok"
                                   ELSE IF outcome = "raise" THEN "raise"
                                   ELSE "none">>)
         /\ Goto(j, IF outcome = "raise" THEN "except" ELSE "check")
    /\ response' = NoResponse
    /\ UNCHANGED <<Functions, njobs, terminals, PollHistory>>

\* DownloadFailed without the `not downloaded_full_video_path` test.
DownloadFailedFileOnly(j) ==
    /\ loc[j].downloaded_full_video_path # "None"
    /\ FullVideo(j) \notin files

\* Line 193.
DownloadFailed(j) ==
    \/ loc[j].downloaded_full_video_path = "None"
    \/ FullVideo(j) \notin files

\* Lines 193-194: the failed record is put before the log line of line 195.
CheckDownload(j) ==
    /\ pc[j] = "check"
    /\ IF DownloadFailed(j)
       THEN /\ PutRecord(j, "failed", <<>>)
            /\ Goto(j, "fail_log")
       ELSE /\ Goto(j, "generate")
            /\ UNCHANGED <<log_queue, nput, quiet, terminals>>
    /\ response' = NoResponse
    /\ UNCHANGED <<Functions, loc, files, njobs, events, PollHistory>>

\* DownloadFailLog without the return of line 196: the thread goes on to
\* generate clips.
DownloadFailLogNoReturn(j) ==
    /\ pc[j] = "fail_log"
    /\ Put(j, LogLines(j, 1))
    /\ Goto(j, "generate")
    /\ response' = NoResponse
    /\ UNCHANGED <<Functions, loc, files, njobs, terminals, events, PollHistory>>

\* Lines 195-196: log_message, then return.
DownloadFailLog(j) ==
    /\ pc[j] = "fail_log"
    /\ Put(j, LogLines(j, 1))
    /\ Goto(j, "done")
    /\ response' = NoResponse
    /\ UNCHANGED <<Functions, loc, files, njobs, terminals, events, PollHistory>>

\* Lines 99-113 of generate_short_clips_to_temp: one line, then
\* VideoFileClip fails (two lines, returns []) or reports a duration (one line).
LoadVideo(j, durations) ==
    /\ pc[j] = "generate"
    /\ \/ /\ Put(j, LogLines(j, 3))
          /\ loc' = [loc EXCEPT ![j].temp_clip_paths = <<>>]
          /\ Event(j, <<"load", "fail">>)
          /\ Goto(j, "upload_start")
       \/ \E d \in durations :
          /\ Put(j, LogLines(j, 2))
          /\ loc' = [loc EXCEPT ![j].video_duration = d, ![j].i = 0,
                                ![j].temp_clip_paths = <<>>]
          /\ Event(j, <<"load", "ok">>)
          /\ Goto(j, "loop")
    /\ response' = NoResponse
    /\ UNCHANGED <<Functions, files, njobs, terminals, PollHistory>>

\* Lines 115-127 and 163-164: the loop ends (range exhausted: one line, the
\* "Finished" line; a break: its line and the "Finished" line) and the
\* function returns generated_temp_clip_paths.
ClipLoopExit(j) ==
    /\ pc[j] = "loop"
    /\ LoopEnds(loc[j].i, CLIP_DURATION_SECONDS, NUM_CLIPS_TO_GENERATE,
                loc[j].video_duration)
    /\ Put(j, LogLines(j, IF loc[j].i >= NUM_CLIPS_TO_GENERATE THEN 1 ELSE 2))
    /\ loc' = [loc EXCEPT ![j].video_duration = 0, ![j].i = 0]
    /\ Goto(j, "upload_start")
    /\ response' = NoResponse
    /\ UNCHANGED <<Functions, files, njobs, terminals, events, PollHistory>>

\* Lines 129-161: iteration i renders its window.  subclip, crop or resize
\* may raise (after the "Generating" line; nothing catches it here);
\* write_videofile succeeds (lines 147, 156: the path is appended) or raises
\* (lines 147, 160, 161: caught, the loop goes on).
RenderOutcomes == {"ok", "fail", "raise"}

\* RenderClip without the try of lines 148-161: a write_videofile failure
\* escapes like any other exception.
RenderClipFatal(j) ==
    /\ pc[j] = "loop"
    /\ ~LoopEnds(loc[j].i, CLIP_DURATION_SECONDS, NUM_CLIPS_TO_GENERATE,
                 loc[j].video_duration)
    /\ \E outcome \in RenderOutcomes :
         LET i == loc[j].i IN
         /\ Put(j, LogLines(j, CASE outcome = "ok" -> 3
                                 [] outcome = "fail" -> 2
                                 [] OTHER -> 1))
         /\ files' = IF outcome = "ok" THEN files \cup {ClipFile(j, i)} ELSE files
         /\ loc' = IF outcome = "ok"
                   THEN [loc EXCEPT ![j].i = i + 1,
                                    ![j].temp_clip_paths = Append(@, i)]
                   ELSE loc
         /\ Event(j, <<"render", i, outcome>>)
         /\ Goto(j, IF outcome = "ok" THEN "loop" ELSE "except")
    /\ response' = NoResponse
    /\ UNCHANGED <<Functions, njobs, terminals, PollHistory>>

\* Lines 129-161, the try of lines 148-161 included.
RenderClip(j) ==
    /\ pc[j] = "loop"
    /\ ~LoopEnds(loc[j].i, CLIP_DURATION_SECONDS, NUM_CLIPS_TO_GENERATE,
                 loc[j].video_duration)
    /\ \E outcome \in RenderOutcomes :
         LET i == loc[j].i IN
         /\ Put(j, LogLines(j, CASE outcome = "ok" -> 3
                                 [] outcome = "fail" -> 4
                                 [] OTHER -> 1))
         /\ files' = IF outcome = "ok" THEN files \cup {ClipFile(j, i)} ELSE files
         /\ loc' = IF outcome = "ok"
                   THEN [loc EXCEPT ![j].i = i + 1,
                                    ![j].temp_clip_paths = Append(@, i)]
                   ELSE IF outcome = "fail"
                   THEN [loc EXCEPT ![j].i = i + 1]
                   ELSE loc
         /\ Event(j, <<"render", i, outcome>>)
         /\ Goto(j, IF outcome = "raise" THEN "except" ELSE "loop")
    /\ response' = NoResponse
    /\ UNCHANGED <<Functions, njobs, terminals, PollHistory>>

\* CurrentPath walking the list from its end.
CurrentPathReversed(temp_clip_paths, k) ==
    temp_clip_paths[Len(temp_clip_paths) - k + 1]

\* Line 210: temp_path at the k-th iteration of the upload loop.
CurrentPath(temp_clip_paths, k) == temp_clip_paths[k]

\* Lines 207-209.
UploadStart(j) ==
    /\ pc[j] = "upload_start"
    /\ loc' = [loc EXCEPT ![j].blob_urls = <<>>, ![j].k = 1]
    /\ IF loc[j].temp_clip_paths # <<>>
       THEN /\ Put(j, LogLines(j, 1))
            /\ Goto(j, "upload")
       ELSE /\ Goto(j, "cleanup_full")
            /\ UNCHANGED <<log_queue, nput, quiet>>
    /\ response' = NoResponse
    /\ UNCHANGED <<Functions, files, njobs, terminals, events, PollHistory>>

\* Lines 211-213 with upload_to_vercel_blob (166-182) for temp_clip_paths[k]:
\* the file is missing (one line, None), put returns a URL (two lines) or put
\* raises (two lines, None; one when open itself raises, which leaves the
\* same state but for that line).  Line 213 appends a URL that is not None.
UploadOutcomes == {"ok", "fail"}

UploadClip(j) ==
    /\ pc[j] = "upload"
    /\ LET i == CurrentPath(loc[j].temp_clip_paths, loc[j].k) IN
       IF ClipFile(j, i) \notin files
       THEN /\ Put(j, LogLines(j, 1))
            /\ Event(j, <<"upload", i, "missing">>)
            /\ UNCHANGED loc
       ELSE \E outcome \in UploadOutcomes :
            /\ Put(j, LogLines(j, 2))
            /\ Event(j, <<"upload", i, outcome>>)
            /\ loc' = IF outcome = "ok"
                      THEN [loc EXCEPT ![j].blob_urls = Append(@, BlobUrl(j, i))]
                      ELSE loc
    /\ Goto(j, "cleanup_clip")
    /\ response' = NoResponse
    /\ UNCHANGED <<Functions, files, njobs, terminals, PollHistory>>

\* os.remove: the file is deleted, or OSError is raised and the file stays.
RemoveOutcomes == {"ok", "oserror"}

\* CleanupClip without the try of lines 215-219: the OSError escapes.
CleanupClipUncaught(j) ==
    /\ pc[j] = "cleanup_clip"
    /\ LET i == CurrentPath(loc[j].temp_clip_paths, loc[j].k) IN
       \E outcome \in RemoveOutcomes :
         /\ outcome = "ok" => ClipFile(j, i) \in files
         /\ files' = IF outcome = "ok" THEN files \ {ClipFile(j, i)} ELSE files
         /\ Event(j, <<"remove", i, outcome>>)
         /\ Put(j, LogLines(j, IF outcome = "ok" THEN 1 ELSE 0))
         /\ loc' = IF outcome = "ok" THEN [loc EXCEPT ![j].k = @ + 1] ELSE loc
         /\ Goto(j, IF outcome # "ok" THEN "except"
                    ELSE IF loc[j].k >= Len(loc[j].temp_clip_paths)
                    THEN "cleanup_full" ELSE "upload")
    /\ response' = NoResponse
    /\ UNCHANGED <<Functions, njobs, terminals, PollHistory>>

\* Lines 214-219: os.remove(temp_path) whatever the upload returned; one line
\* either way; then the next path, or the loop is over.
CleanupClip(j) ==
    /\ pc[j] = "cleanup_clip"
    /\ LET i == CurrentPath(loc[j].temp_clip_paths, loc[j].k) IN
       \E outcome \in RemoveOutcomes :
         /\ outcome = "ok" => ClipFile(j, i) \in files
         /\ files' = IF outcome = "ok" THEN files \ {ClipFile(j, i)} ELSE files
         /\ Event(j, <<"remove", i, outcome>>)
    /\ Put(j, LogLines(j, 1))
    /\ loc' = [loc EXCEPT ![j].k = @ + 1]
    /\ Goto(j, IF loc[j].k >= Len(loc[j].temp_clip_paths)
               THEN "cleanup_full" ELSE "upload")
    /\ response' = NoResponse
    /\ UNCHANGED <<Functions, njobs, terminals, PollHistory>>

\* Lines 221-226: os.remove(downloaded_full_video_path); one line either way.
CleanupFull(j) ==
    /\ pc[j] = "cleanup_full"
    /\ \E outcome \in RemoveOutcomes :
         /\ outcome = "ok" => FullVideo(j) \in files
         /\ files' = IF outcome = "ok" THEN files \ {FullVideo(j)} ELSE files
         /\ Event(j, <<"remove_full", outcome>>)
    /\ Put(j, LogLines(j, 1))
    /\ Goto(j, "terminal")
    /\ response' = NoResponse
    /\ UNCHANGED <<Functions, loc, njobs, terminals, PollHistory>>

\* FinalStatus never taking the else branch of line 230.
FinalStatusAlwaysCompleted(blob_urls) == "completed"

\* Lines 228-231: the status of the final record.
FinalStatus(blob_urls) == IF blob_urls # <<>> THEN "completed" ELSE "failed"

\* Lines 228-231: the clips of the final record.
FinalClips(blob_urls) == blob_urls

\* Lines 228-231.
EmitTerminal(j) ==
    /\ pc[j] = "terminal"
    /\ PutRecord(j, FinalStatus(loc[j].blob_urls), FinalClips(loc[j].blob_urls))
    /\ Goto(j, "done")
    /\ response' = NoResponse
    /\ UNCHANGED <<Functions, loc, files, njobs, events, PollHistory>>

\* ExceptRecord without the put of line 234: the fault is only logged.
ExceptRecordSilent(j) ==
    /\ pc[j] = "except"
    /\ Goto(j, "except_log")
    /\ response' = NoResponse
    /\ UNCHANGED <<Functions, log_queue, nput, quiet, loc, files, njobs,
                   terminals, events, PollHistory>>

\* ExceptRecord reporting the fault with the status of line 231.
ExceptRecordAsFailed(j) ==
    /\ pc[j] = "except"
    /\ PutRecord(j, "failed", <<>>)
    /\ Goto(j, "except_log")
    /\ response' = NoResponse
    /\ UNCHANGED <<Functions, loc, files, njobs, events, PollHistory>>

\* Lines 233-234: the error record is put before the log line of line 235.
ExceptRecord(j) ==
    /\ pc[j] = "except"
    /\ PutRecord(j, "error", <<>>)
    /\ Goto(j, "except_log")
    /\ response' = NoResponse
    /\ UNCHANGED <<Functions, loc, files, njobs, events, PollHistory>>

\* Line 235.
ExceptLog(j) ==
    /\ pc[j] = "except_log"
    /\ Put(j, LogLines(j, 1))
    /\ Goto(j, "done")
    /\ response' = NoResponse
    /\ UNCHANGED <<Functions, loc, files, njobs, terminals, events, PollHistory>>

\* ------------------------------------------------------ request handlers
\* str.startswith
StartsWith(s, prefix) ==
    /\ Len(s) >= Len(prefix)
    /\ SubSeq(s, 1, Len(prefix)) = prefix

\* IsValidLink without the scheme test: any non-empty link passes.
IsValidLinkNonEmpty(youtube_link) == youtube_link # <<>>

\* Line 246, negated: the link passes validation.
IsValidLink(youtube_link) ==
    /\ youtube_link # <<>>
    /\ \/ StartsWith(youtube_link, HttpPrefix)
       \/ StartsWith(youtube_link, HttpsPrefix)

\* Line 247.
InvalidLinkResponse ==
    [endpoint |-> "generate_clips", status |-> "error", logs |-> <<>>, item |-> <<>>]

\* Line 262.
ProcessingResponse ==
    [endpoint |-> "generate_clips", status |-> "processing", logs |-> <<>>,
     item |-> <<>>]

\* Lines 255-257: the three lines the handler puts for the new job.
SeedLines(j) == <<Line(j, 1), Line(j, 2), Line(j, 3)>>

\* Lines 243-262.  An invalid link returns the error response at line 247.
\* Otherwise the queue is emptied (249-253), the three lines are put, the
\* thread of a new job is started and the processing response returned.  At
\* most `cap` threads are started in a behaviour.
generate_clips(youtube_link, cap) ==
    IF ~IsValidLink(youtube_link)
    THEN /\ response' = InvalidLinkResponse
         /\ UNCHANGED <<Functions, log_queue, pc, loc, files, njobs, nput, terminals,
                        events, quiet, PollHistory>>
    ELSE /\ njobs < cap
         /\ LET j == njobs + 1 IN
            /\ log_queue' = SeedLines(j)
            /\ nput' = [nput EXCEPT ![j] = 3]
            /\ pc' = [pc EXCEPT ![j] = "download"]
            /\ njobs' = j
         /\ quiet' = FALSE
         /\ response' = ProcessingResponse
         /\ UNCHANGED <<Functions, loc, files, terminals, events, PollHistory>>

\* Lines 267-276: the loop of get_logs over the queue q with `logs` collected
\* so far: it stops at an empty queue, or at the first status dict, which it
\* returns at once (line 272).
RECURSIVE DrainLoop(_, _)
DrainLoop(q, logs) ==
    IF q = <<>>
    THEN [logs |-> logs, item |-> <<>>, rest |-> q]
    ELSE IF IsStatusDict(Head(q))
    THEN [logs |-> logs, item |-> <<Head(q)>>, rest |-> Tail(q)]
    ELSE DrainLoop(Tail(q), Append(logs, Head(q)))

\* Lines 272 and 278: the JSON returned.
LogsResponse(drained) ==
    IF drained.item # <<>>
    THEN [endpoint |-> "get_logs", status |-> drained.item[1].status,
          logs |-> <<>>, item |-> drained.item]
    ELSE [endpoint |-> "get_logs", status |-> "logging",
          logs |-> drained.logs, item |-> <<>>]

Ids(entries) == {Id(entries[x]) : x \in 1..Len(entries)}

\* Lines 265-278.
get_logs ==
    LET drained == DrainLoop(log_queue, <<>>)
        resp == LogsResponse(drained)
        carried == Ids(resp.logs) \cup Ids(resp.item)
    IN
    /\ log_queue' = drained.rest
    /\ response' = resp
    /\ quiet' = TRUE
    /\ polled' = polled \cup Ids(drained.logs) \cup Ids(drained.item)
    /\ delivered' = delivered \cup carried
    /\ redelivered' = redelivered \cup (carried \cap delivered)
    /\ UNCHANGED <<Functions, pc, loc, files, njobs, nput, terminals, events>>

\* ------------------------------- generate_short_clips_to_temp, taken alone
\* The variables of the server, which the function taken alone leaves alone.
Server == <<log_queue, response, pc, loc, files, njobs, nput, terminals,
            events, quiet, PollHistory>>

\* Lines 97, 108: the arguments clip_duration and num_clips and the duration
\* of the loaded video, in whole seconds; the loop is about to start.
PlanInit ==
    /\ ServerStarted
    /\ geometry = NoGeometry
    /\ \E video_duration \in 0..MaxTotalDuration,
          clip_duration \in 1..MaxClipDuration,
          num_clips \in 1..MaxClipCount :
         plan = [pc |-> "loop", video_duration |-> video_duration,
                 clip_duration |-> clip_duration, num_clips |-> num_clips,
                 i |-> 0, windows |-> <<>>]

\* Lines 115-129: iteration i passes both breaks and hands its window
\* (start_time, end_time) to subclip; the loop goes on with i + 1.
PlanWindow ==
    /\ plan.pc = "loop"
    /\ ~LoopEnds(plan.i, plan.clip_duration, plan.num_clips, plan.video_duration)
    /\ plan' = [plan EXCEPT
                  !.windows = Append(@,
                      <<StartTime(plan.i, plan.clip_duration),
                        ClampedEnd(plan.i, plan.clip_duration,
                                   plan.video_duration)>>),
                  !.i = @ + 1]
    /\ UNCHANGED <<Server, geometry>>

\* Lines 115, 119-121, 123-127: range(num_clips) is exhausted or a break is
\* taken; no window is handed to subclip any more.
PlanStop ==
    /\ plan.pc = "loop"
    /\ LoopEnds(plan.i, plan.clip_duration, plan.num_clips, plan.video_duration)
    /\ plan' = [plan EXCEPT !.pc = "done"]
    /\ UNCHANGED <<Server, geometry>>

\* Line 113, with the comparisons of lines 133 and 136 cross-multiplied:
\* sub_clip.w / sub_clip.h against SHORT_VIDEO_WIDTH / SHORT_VIDEO_HEIGHT.
\* 1080 / 1920 is 0.5625, which a float holds exactly, so the float
\* comparisons and products of the code agree with the integer ones here.
Wider(sub_clip) == sub_clip.w * SHORT_VIDEO_HEIGHT > SHORT_VIDEO_WIDTH * sub_clip.h
Taller(sub_clip) == sub_clip.w * SHORT_VIDEO_HEIGHT < SHORT_VIDEO_WIDTH * sub_clip.h

\* NewWidth rounding up instead of truncating.
NewWidthRoundedUp(sub_clip) ==
    (sub_clip.h * SHORT_VIDEO_WIDTH + SHORT_VIDEO_HEIGHT - 1) \div SHORT_VIDEO_HEIGHT

\* Line 134: int(sub_clip.h * target_aspect).
NewWidth(sub_clip) == (sub_clip.h * SHORT_VIDEO_WIDTH) \div SHORT_VIDEO_HEIGHT

\* Line 137: int(sub_clip.w / target_aspect).
NewHeight(sub_clip) == (sub_clip.w * SHORT_VIDEO_HEIGHT) \div SHORT_VIDEO_WIDTH

\* Lines 133-140: the size of the clip that crop returns, or sub_clip itself.
Crop(sub_clip) ==
    IF Wider(sub_clip) THEN [w |-> NewWidth(sub_clip), h |-> sub_clip.h]
    ELSE IF Taller(sub_clip) THEN [w |-> sub_clip.w, h |-> NewHeight(sub_clip)]
    ELSE sub_clip

\* Line 142: the size resize is asked for.
Resize(clip) == [w |-> SHORT_VIDEO_WIDTH, h |-> SHORT_VIDEO_HEIGHT]

\* The frame sides a sub_clip may have.
FrameDims == (1..MaxFrameDim) \cup {720, 1080, 1280, 1920}

\* Line 129: subclip has returned a clip of some frame size.
GeometryInit ==
    /\ ServerStarted
    /\ plan = NoPlan
    /\ \E w \in FrameDims, h \in FrameDims :
         geometry = [pc |-> "crop", sub_clip |-> [w |-> w, h |-> h],
                     cropped |-> NoClip, processed_clip |-> NoClip]

\* Lines 133-140: processed_clip is the cropped clip (or sub_clip).
CropFrame ==
    /\ geometry.pc = "crop"
    /\ geometry' = [geometry EXCEPT !.pc = "resize",
                                    !.cropped = Crop(geometry.sub_clip),
                                    !.processed_clip = Crop(geometry.sub_clip)]
    /\ UNCHANGED <<Server, plan>>

\* Line 142: processed_clip is resized.
ResizeFrame ==
    /\ geometry.pc = "resize"
    /\ geometry' = [geometry EXCEPT !.pc = "done",
                                    !.processed_clip = Resize(@)]
    /\ UNCHANGED <<Server, plan>>

\* -------------------------------------------------------- specifications
\* A step of job j's thread up to the download check (lines 189-196) and in
\* the except clause (lines 233-235).
AcquireStep(j) ==
    \/ Download(j)
    \/ CheckDownload(j)
    \/ DownloadFailLog(j)
    \/ ExceptRecord(j)
    \/ ExceptLog(j)

\* A step of job j's thread after the download check (lines 198-231).
PipelineStep(j, durations) ==
    \/ LoadVideo(j, durations)
    \/ ClipLoopExit(j)
    \/ RenderClip(j)
    \/ UploadStart(j)
    \/ UploadClip(j)
    \/ CleanupClip(j)
    \/ CleanupFull(j)
    \/ EmitTerminal(j)

\* A single job: one accepted submission and no later one, any number of
\* rejected submissions and of polls.
Next ==
    \/ \E link \in Links : generate_clips(link, 1)
    \/ get_logs
    \/ AcquireStep(1)
    \/ PipelineStep(1, VideoDurations)

Spec == Init /\ [][Next]_vars

\* The single job on videos of at most one clip duration.
NextShort ==
    \/ \E link \in Links : generate_clips(link, 1)
    \/ get_logs
    \/ AcquireStep(1)
    \/ PipelineStep(1, ShortDurations)

\* The single job under the scheduling the code relies on: the thread keeps
\* running (every external call returns or raises) and the client keeps polling.
FairSpec ==
    /\ Init
    /\ [][NextShort]_vars
    /\ WF_vars(AcquireStep(1) \/ PipelineStep(1, ShortDurations))
    /\ WF_vars(get_logs)

\* Up to MaxJobs accepted submissions, their threads side by side.  Each
\* thread is followed through source acquisition and the except clause; a
\* thread whose download succeeded is still running and is not followed
\* further.
NextMulti ==
    \/ \E link \in Links : generate_clips(link, MaxJobs)
    \/ get_logs
    \/ \E j \in Jobs : AcquireStep(j)

SpecMulti == Init /\ [][NextMulti]_vars

\* The for loop of generate_short_clips_to_temp on every argument in the
\* bounds, the external calls left out.
PlanNext == PlanWindow \/ PlanStop

PlannerSpec == PlanInit /\ [][PlanNext]_vars

\* The crop and resize of one sub_clip, on every frame size in the bounds.
GeometryNext == CropFrame \/ ResizeFrame

GeometrySpec == GeometryInit /\ [][GeometryNext]_vars

\* ================================================================ claims
\* ------------------------------------------------ what the histories say
HasEvent(j, e) == \E x \in DOMAIN events[j] : events[j][x] = e

Faulted(j) ==
    \E x \in DOMAIN events[j] : events[j][x][Len(events[j][x])] = "raise"

\* Job j acquired its source, met no unexpected fault and has returned.
NormalEnd(j) ==
    /\ pc[j] = "done"
    /\ HasEvent(j, <<"download", "ok">>)
    /\ ~Faulted(j)

Segments == 0..(NUM_CLIPS_TO_GENERATE - 1)

\* The segments of job j that were both rendered and published.
RenderedAndPublished(j) ==
    {i \in Segments : /\ HasEvent(j, <<"render", i, "ok">>)
                      /\ HasEvent(j, <<"upload", i, "ok">>)}

RECURSIVE Ascending(_)
Ascending(S) ==
    IF S = {} THEN <<>>
    ELSE LET m == CHOOSE x \in S : \A y \in S : x <= y
         IN <<m>> \o Ascending(S \ {m})

UrlsOf(j, segs) == [x \in 1..Len(segs) |-> BlobUrl(j, segs[x])]

\* The get_logs response just returned carries a status dict.
TerminalReceived == response.endpoint = "get_logs" /\ response.item # <<>>

\* C1: from the start of the single job's thread (it is at the download), its
\* terminal record is eventually put on log_queue and eventually returned by a
\* get_logs call.
C1_TerminalEventuallyPolled ==
    (pc[1] = "download") ~> (terminals[1] # <<>> /\ TerminalReceived
                               /\ response.item[1].job = 1)

C1_Witness ==
    /\ TerminalReceived
    /\ response.item[1].status = "failed"
    /\ HasEvent(1, <<"download", "ok">>)

\* C2: a run of process_video_task puts at most one status dict on
\* log_queue, on every path.
C2_AtMostOneTerminal == \A j \in Jobs : Len(terminals[j]) <= 1

C2_Witness ==
    /\ pc[1] = "done"
    /\ Len(terminals[1]) = 1
    /\ terminals[1][1].status = "error"
    /\ HasEvent(1, <<"render", 0, "ok">>)

\* C3: once a job's thread has put its terminal record, it writes nothing
\* more to log_queue.
C3_NoWriteAfterTerminal ==
    [][\A j \in Jobs : terminals[j] # <<>> => nput'[j] = nput[j]]_vars

\* C4: a get_logs call that follows a get_logs call with no put between the
\* two returns status logging with an empty logs list.
C4_SecondPollIdle ==
    [][(quiet /\ get_logs)
         => (response'.status = "logging" /\ response'.logs = <<>>)]_vars

\* C5: every entry get_logs removed from log_queue was carried by a
\* response, and none by two.
C5_DeliveredExactlyOnce == polled \subseteq delivered /\ redelivered = {}

\* C6: a job that acquired its source and met no fault ends completed exactly
\* when some segment was rendered and published, with the URLs of those
\* segments in planned order, and failed with no URL exactly when none was.
C6_OutcomeMatchesPublished ==
    \A j \in Jobs :
      NormalEnd(j) =>
        /\ Len(terminals[j]) = 1
        /\ LET t == terminals[j][1]
               done == RenderedAndPublished(j)
           IN /\ t.status = "completed" <=> done # {}
              /\ t.status = "failed" <=> done = {}
              /\ t.clips = UrlsOf(j, Ascending(done))

C6_Witness ==
    /\ NormalEnd(1)
    /\ terminals[1][1].status = "completed"
    /\ Len(terminals[1][1].clips) = 2
    /\ Len(loc[1].temp_clip_paths) = 3

\* C7: a rendered artifact whose publish failed has no URL in the result and
\* its local file is still there, and the job went on.
C7_FailedArtifactKept ==
    \A j \in Jobs : \A i \in Segments :
      HasEvent(j, <<"upload", i, "fail">>) =>
        /\ ClipFile(j, i) \in files
        /\ \A x \in DOMAIN loc[j].blob_urls : loc[j].blob_urls[x] # BlobUrl(j, i)
        /\ pc[j] # "except"

\* Positions in events[j].
IsRender(e) == e[1] = "render"
IsUpload(e) == e[1] = "upload"
IsRemove(e) == e[1] = "remove"

Executing(j) == pc[j] \notin {"idle", "done"} /\ terminals[j] = <<>>

\* C9: at most one job is executing at any time.
C9_OneJobAtATime == Cardinality({j \in Jobs : Executing(j)}) <= 1

\* The claim's words for a link that is rejected.
Rejected(link) ==
    \/ link = <<>>
    \/ ~(StartsWith(link, HttpPrefix) \/ StartsWith(link, HttpsPrefix))

Started == {j \in Jobs : pc[j] = "idle" /\ pc'[j] # "idle"}

\* C10: a submission whose link is empty or has neither scheme is answered
\* with the error response, starts no thread and leaves log_queue as it was;
\* any other submission starts exactly one thread.
C10_InvalidLinkTouchesNothing ==
    [][\A link \in Links :
         generate_clips(link, 1) =>
           IF Rejected(link)
           THEN /\ response'.status = "error"
                /\ Started = {}
                /\ UNCHANGED <<log_queue, nput, njobs>>
           ELSE /\ Cardinality(Started) = 1
                /\ njobs' = njobs + 1
                /\ response'.status = "processing"]_vars

C10_Witness ==
    /\ response = InvalidLinkResponse
    /\ Len(log_queue) > 3
    /\ pc[1] = "cleanup_clip"

\* Job j has an event of the given kind.
HasKind(j, kind) == \E x \in DOMAIN events[j] : events[j][x][1] = kind

\* C11: when the download returns no usable path, the job puts a failed
\* record and nothing else, and no video is loaded and no segment is
\* rendered or published.
C11_AcquisitionFailureEndsFailed ==
    \A j \in Jobs :
      HasEvent(j, <<"download", "none">>) =>
        /\ ~HasKind(j, "load") /\ ~HasKind(j, "render") /\ ~HasKind(j, "upload")
        /\ loc[j].temp_clip_paths = <<>> /\ loc[j].blob_urls = <<>>
        /\ pc[j] \in {"check", "fail_log", "done"}
        /\ pc[j] # "check" => terminals[j] = <<[status |-> "failed", clips |-> <<>>]>>

C11_Witness ==
    /\ pc[1] = "done"
    /\ HasEvent(1, <<"download", "none">>)
    /\ terminals[1] = <<[status |-> "failed", clips |-> <<>>]>>

InSeq(v, seq) == \E x \in DOMAIN seq : seq[x] = v

\* C16: a segment whose write_videofile failed is not among the rendered
\* clips and is never uploaded; the loop goes on with the next segment; and
\* when the job returns, every segment that did render was handed to the
\* upload and the record lists the URLs of those uploaded.
C16_RenderFailureNonFatal ==
    \A j \in Jobs :
      /\ \A x \in DOMAIN events[j] :
           LET e == events[j][x] IN
           (IsRender(e) /\ e[3] = "fail") =>
             /\ ~InSeq(e[2], loc[j].temp_clip_paths)
             /\ \A y \in DOMAIN events[j] :
                  IsUpload(events[j][y]) => events[j][y][2] # e[2]
             /\ x = Len(events[j]) =>
                  /\ pc[j] \in {"loop", "upload_start", "upload", "cleanup_full"}
                  /\ pc[j] = "loop" => loc[j].i = e[2] + 1
             /\ x < Len(events[j]) =>
                  LET next == events[j][x + 1] IN
                  IF IsRender(next) THEN next[2] = e[2] + 1
                  ELSE next[1] \in {"upload", "remove_full"}
      /\ NormalEnd(j) =>
           /\ \A m \in Segments :
                HasEvent(j, <<"render", m, "ok">>) =>
                  \E y \in DOMAIN events[j] :
                    IsUpload(events[j][y]) /\ events[j][y][2] = m
           /\ \A m \in Segments :
                HasEvent(j, <<"upload", m, "ok">>) =>
                  InSeq(BlobUrl(j, m), terminals[j][1].clips)

C16_Witness ==
    /\ NormalEnd(1)
    /\ HasEvent(1, <<"render", 0, "fail">>)
    /\ HasEvent(1, <<"render", 1, "ok">>)
    /\ terminals[1] = <<[status |-> "completed", clips |-> <<BlobUrl(1, 1)>>]>>

\* Job j has had an os.remove fail.
RemoveFailed(j) ==
    \E x \in DOMAIN events[j] :
      /\ events[j][x][1] \in {"remove", "remove_full"}
      /\ events[j][x][Len(events[j][x])] = "oserror"

\* The segments of job j whose upload returned a URL.
Uploaded(j) == {i \in Segments : HasEvent(j, <<"upload", i, "ok">>)}

\* The record lines 228-231 owe to the upload results alone.
RecordOwed(j) ==
    [status |-> IF Uploaded(j) # {} THEN "completed" ELSE "failed",
     clips |-> UrlsOf(j, Ascending(Uploaded(j)))]

\* C18: a failed os.remove does not send the job to the except clause, and
\* the record of a job that reached its cleanups is the one its upload
\* results call for, whatever the deletions did.
C18_DeleteFailureHarmless ==
    \A j \in Jobs :
      /\ RemoveFailed(j) =>
           /\ pc[j] \notin {"except", "except_log"}
           /\ \A x \in DOMAIN terminals[j] : terminals[j][x].status # "error"
      /\ (pc[j] = "done" /\ HasKind(j, "remove_full")) =>
           terminals[j] = <<RecordOwed(j)>>

C18_Witness ==
    /\ pc[1] = "done"
    /\ HasEvent(1, <<"remove", 0, "oserror">>)
    /\ HasEvent(1, <<"remove_full", "oserror">>)
    /\ terminals[1] = <<[status |-> "completed", clips |-> <<BlobUrl(1, 0)>>]>>
    /\ ClipFile(1, 0) \in files

\* C19: a get_logs response holds nothing that the thread of an earlier
\* submission wrote: every entry it carries belongs to the latest job.
C19_NoStaleEntries ==
    response.endpoint = "get_logs" =>
      /\ \A x \in DOMAIN response.logs : response.logs[x].job = njobs
      /\ \A x \in DOMAIN response.item : response.item[x].job = njobs

\* C20: when a job that acquired its source has put its terminal record,
\* os.remove was attempted before on the full video and on every rendered clip.
C20_CleanupBeforeTerminal ==
    \A j \in Jobs :
      (HasEvent(j, <<"download", "ok">>) /\ terminals[j] # <<>>) =>
        /\ HasKind(j, "remove_full")
        /\ \A i \in Segments :
             HasEvent(j, <<"render", i, "ok">>) =>
               \E x \in DOMAIN events[j] :
                 IsRemove(events[j][x]) /\ events[j][x][2] = i

\* ------------------------------------------------------------ the planner
\* C13: every window handed to subclip has 0 <= start < end <= the video's
\* duration and is at least half a clip_duration long; the windows come in
\* strictly increasing start order and none overlaps another.
C13_WindowsWellFormed ==
    (plan.video_duration > 0 /\ plan.clip_duration > 0 /\ plan.num_clips >= 1) =>
      /\ \A x \in DOMAIN plan.windows :
           LET start == plan.windows[x][1]
               end == plan.windows[x][2]
           IN /\ 0 <= start
              /\ start < end
              /\ end <= plan.video_duration
              /\ 2 * (end - start) >= plan.clip_duration
      /\ \A x, y \in DOMAIN plan.windows :
           x < y => /\ plan.windows[x][1] < plan.windows[y][1]
                    /\ plan.windows[x][2] <= plan.windows[y][1]

\* A clamped last window of just over half a clip is kept.
C13_Witness ==
    /\ plan.pc = "done"
    /\ plan.video_duration = 41
    /\ plan.clip_duration = 27
    /\ plan.windows = <<<<0, 27>>, <<27, 41>>>>

\* C14: there are never more windows than num_clips, and the finished loop
\* has made exactly num_clips of them when the video is at least
\* num_clips * clip_duration long.
C14_WindowCount ==
    /\ Len(plan.windows) <= plan.num_clips
    /\ (plan.pc = "done"
        /\ plan.video_duration >= plan.num_clips * plan.clip_duration) =>
         Len(plan.windows) = plan.num_clips

\* A video of exactly num_clips * clip_duration seconds.
C14_Witness ==
    /\ plan.pc = "done"
    /\ plan.video_duration = 100
    /\ plan.clip_duration = 20
    /\ plan.num_clips = 5
    /\ Len(plan.windows) = 5

Min(a, b) == IF a <= b THEN a ELSE b

\* The reference plan stops at candidate i: the count is used up, the
\* candidate starts at or after the end, or its clamped window is shorter
\* than half a clip.
RefStops(i, total, clipDuration, clipCount) ==
    \/ i >= clipCount
    \/ i * clipDuration >= total
    \/ 2 * (Min((i + 1) * clipDuration, total) - i * clipDuration) < clipDuration

\* The number of windows of the reference plan: the first candidate at
\* which it stops.
RefCount(total, clipDuration, clipCount) ==
    CHOOSE n \in 0..clipCount :
      /\ RefStops(n, total, clipDuration, clipCount)
      /\ \A m \in 0..(n - 1) : ~RefStops(m, total, clipDuration, clipCount)

RefPlan(total, clipDuration, clipCount) ==
    [x \in 1..RefCount(total, clipDuration, clipCount) |->
       <<(x - 1) * clipDuration, Min(x * clipDuration, total)>>]

\* C15: the windows made so far are the first windows of the reference plan,
\* and the finished loop has made all of it; 100 s at 27 s and 5 clips gives
\* [0,27) [27,54) [54,81) [81,100), and 30 s at 27 s gives [0,27) alone.
C15_MatchesReferencePlan ==
    plan.pc # "idle" =>
      LET ref == RefPlan(plan.video_duration, plan.clip_duration, plan.num_clips)
      IN /\ Len(plan.windows) <= Len(ref)
         /\ plan.windows = SubSeq(ref, 1, Len(plan.windows))
         /\ plan.pc = "done" =>
              /\ plan.windows = ref
              /\ (plan.video_duration = 100 /\ plan.clip_duration = 27
                  /\ plan.num_clips = 5) =>
                   plan.windows =
                     <<<<0, 27>>, <<27, 54>>, <<54, 81>>, <<81, 100>>>>
              /\ (plan.video_duration = 30 /\ plan.clip_duration = 27) =>
                   plan.windows = <<<<0, 27>>>>

C15_Witness ==
    /\ plan.pc = "done"
    /\ plan.video_duration = 100
    /\ plan.clip_duration = 27
    /\ plan.num_clips = 5
    /\ plan.windows = <<<<0, 27>>, <<27, 54>>, <<54, 81>>, <<81, 100>>>>

\* ----------------------------------------------------------- the geometry
\* c is the largest whole number with c * den <= num: c = floor(num / den).
IsFloor(c, num, den) == c * den <= num /\ num < (c + 1) * den

\* C17: a sub_clip wider than 1080:1920 is cropped to the full height and
\* width floor(h * 1080 / 1920); a taller one to the full width and height
\* floor(w * 1920 / 1080); one of that aspect is not cropped; the crop is
\* never larger than the frame; the crop is done when resize is called, and
\* resize gives exactly 1080 x 1920.  A 1920 x 1080 frame is cropped to
\* 607 x 1080.
C17_CropThenResize ==
    LET sub == geometry.sub_clip
        c == geometry.cropped
    IN /\ geometry.pc = "crop" =>
            geometry.cropped = NoClip /\ geometry.processed_clip = NoClip
       /\ geometry.pc \in {"resize", "done"} =>
            /\ sub.w * SHORT_VIDEO_HEIGHT > SHORT_VIDEO_WIDTH * sub.h =>
                 /\ c.h = sub.h
                 /\ IsFloor(c.w, sub.h * SHORT_VIDEO_WIDTH, SHORT_VIDEO_HEIGHT)
            /\ sub.w * SHORT_VIDEO_HEIGHT < SHORT_VIDEO_WIDTH * sub.h =>
                 /\ c.w = sub.w
                 /\ IsFloor(c.h, sub.w * SHORT_VIDEO_HEIGHT, SHORT_VIDEO_WIDTH)
            /\ sub.w * SHORT_VIDEO_HEIGHT = SHORT_VIDEO_WIDTH * sub.h => c = sub
            /\ c.w <= sub.w
            /\ c.h <= sub.h
            /\ sub = [w |-> 1920, h |-> 1080] => c = [w |-> 607, h |-> 1080]
       /\ geometry.pc = "resize" => geometry.processed_clip = c
       /\ geometry.pc = "done" =>
            geometry.processed_clip =
              [w |-> SHORT_VIDEO_WIDTH, h |-> SHORT_VIDEO_HEIGHT]

C17_Witness ==
    /\ geometry.pc = "done"
    /\ geometry.sub_clip = [w |-> 1920, h |-> 1080]
    /\ geometry.cropped = [w |-> 607, h |-> 1080]
    /\ geometry.processed_clip = [w |-> 1080, h |-> 1920]

====
